---- MODULE Spec2Model ----
(***************************************************************************)
(* A model of the lcache load-through cache (package lcache).              *)
(*                                                                         *)
(* The container indexes item objects by key; Get looks the key up without *)
(* the container lock, creates the item under the lock when it is absent,  *)
(* and delegates to item.Value, which returns the stored pair when the     *)
(* item is fresh and otherwise calls Refresh, which starts a load task     *)
(* (a goroutine) unless one is marked as running.  Every unsynchronised    *)
(* memory access of Value and of the load task is one step of the model,   *)
(* so that every interleaving of the goroutines is explored.  A section    *)
(* that runs under the container lock, or under the item lock, is one      *)
(* step.  The recency list is container/list with its pointers.            *)
(***************************************************************************)
EXTENDS Integers, Sequences, FiniteSets, TLC

\* ---------------------------------------------------------------- bounds
\* The keys callers use, the calling goroutines, the item objects ever
\* allocated, the clock's range, and the capacities and ttls a container is
\* built with.
NumKeys == 3
NumProcs == 2
MaxItems == 3
MaxTime == 1
MaxCap == 1
MaxTTL == 1
\* The Get calls and the Loader invocations of a run of a container used
\* with one key and never emptied, and those of a run of an LRU container
\* used with every key, with its Remove and Purge calls.
MaxGets == 4
MaxLoads == 3
MaxGetsLRU == 4
MaxLoadsLRU == 1
MaxRemoves == 1
\* The same for a run of a container without LRU that is used with one key
\* and is emptied by Remove and Purge.
MaxGetsRm == 3
MaxLoadsRm == 2
MaxRemovesRm == 1
\* The same for a run of a container with LRU, used with one key and never
\* emptied, in which a Loader invocation may never return: no Get ever
\* lacks a load.
MaxGetsHang == 3
MaxLoadsHang == 3
\* The same for a run of a container with LRU and context support whose
\* callers pass contexts and pointers.
MaxGetsCtx == 2
MaxLoadsCtx == 1
MaxRemovesCtx == 1
\* The same for a run of a container with LRU whose callers pass pointers.
MaxGetsPtr == 2
MaxLoadsPtr == 1
MaxRemovesPtr == 1
\* The same for a run of a container with LRU and a capacity of TwoEntries,
\* used with two keys, with its Remove and Purge calls.
MaxGetsTwo == 4
MaxLoadsTwo == 1
MaxRemovesTwo == 2
TwoEntries == 2
\* The same for a run of a container with LRU, used with one key, that is
\* emptied and filled again.
MaxGetsPurge == 2
MaxLoadsPurge == 2
MaxRemovesPurge == 1
\* Those of a run of a container without LRU, of capacity 1..MaxCap, used
\* with two keys.
MaxGetsCap == 3
MaxLoadsCap == 1
MaxRemovesCap == 1
\* Those of a run of a container without LRU, used with one key, whose
\* Loader returns from every call.
MaxGetsLive == 2
MaxLoadsLive == 2
MaxRemovesLive == 1
\* Those of a run of a container, with or without LRU, used with one key,
\* whose Gets take time to read the map.
MaxGetsRace == 2
MaxLoadsRace == 1
MaxRemovesRace == 1
\* The most parameters and results of a function given to New.
MaxIn == 2
MaxOut == 3

\* DefaultCapacity is the capacity used when none (or a non-positive one) is given.
DefaultCapacity == 512

Procs == 1..NumProcs
ItemIds == 1..MaxItems

\* A nil pointer; the list's root (sentinel) element is 0, an item's element
\* is the item's id.
NilPtr == 0 - 1
Root == 0

\* ----------------------------------------------------- parameter values
\* A parameter is a plain value, a pointer to a value, or a context.  text
\* is what %v prints of the value (for a pointer: of the value it points
\* to), as character codes; at is the address of a pointer (and tells
\* contexts apart); a context is canceled or not.
Val(n) == [kind |-> "val", at |-> 0, text |-> <<n>>, canceled |-> FALSE]
Ptr(a, n) == [kind |-> "ptr", at |-> a, text |-> <<n>>, canceled |-> FALSE]
Ctx(a, c) == [kind |-> "ctx", at |-> a, text |-> <<0, a>>, canceled |-> c]

\* context.Background()
Background == Ctx(0, FALSE)

\* The value itself, also for a pointer (a variant of Indirect).
NoIndirect(v) == v

\* reflect.Indirect: the value a pointer points to; any other value itself.
Indirect(v) == IF v.kind = "ptr" THEN [v EXCEPT !.kind = "val", !.at = 0] ELSE v

\* fmt's %v: a pointer prints as its address, any other value as its text.
FormatV(v) == IF v.kind = "ptr" THEN <<0, v.at>> ELSE v.text

\* The character '#'.
Hash == 35

\* buf.WriteString(fmt.Sprintf("#%v", reflect.Indirect(reflect.ValueOf(param))))
\* for every parameter in turn.
RECURSIVE WriteParams(_)
WriteParams(params) ==
    IF params = <<>> THEN <<>>
    ELSE <<Hash>> \o FormatV(Indirect(Head(params))) \o WriteParams(Tail(params))

\* The type of a Loader of numIn parameters returning (interface{}, error).
LoaderType(numIn) ==
    [kind |-> "func", numIn |-> numIn, numOut |-> 2, errOut |-> TRUE, variadic |-> FALSE]

\* Loader outcomes: a value with a nil error, a value with an ordinary error,
\* or the sentinel ErrResourceExhausted; a Loader given a canceled context
\* may also return the context's error.
Outcomes == {"ok", "err", "exh"}
Canceled == 0 - 3

\* The types a value given to New as the Loader may have: none (a nil
\* interface), a type that is no function, and functions of 0..MaxIn
\* parameters (the last of which may be variadic) and 0..MaxOut results (of
\* which the second is an error or not).
FnTypes ==
    {[kind |-> "nil", numIn |-> 0, numOut |-> 0, errOut |-> FALSE, variadic |-> FALSE],
     [kind |-> "string", numIn |-> 0, numOut |-> 0, errOut |-> FALSE, variadic |-> FALSE]}
    \cup {t \in [kind : {"func"}, numIn : 0..MaxIn, numOut : 0..MaxOut,
                  errOut : BOOLEAN, variadic : BOOLEAN] :
              /\ t.variadic => t.numIn > 0
              /\ t.errOut => t.numOut >= 2}

\* ErrInvalidFn: the error of New for a Loader it does not accept.
ErrInvalidFn == 0 - 5

\* ErrFnParams: the error of a Get whose parameters do not fit the Loader.
ErrFnParams == 0 - 4

\* The pair (value, err) that load number n returns for an outcome.  The value
\* is n (every invocation returns a value of its own); the error is 0 for
\* nil, n for an ordinary error (an error value of that invocation), and
\* ErrResourceExhausted for the sentinel.
ErrResourceExhausted == 0 - 2
LoaderPair(n, kind) ==
    CASE kind = "ok" -> <<n, 0>>
      [] kind = "err" -> <<n, n>>
      [] kind = "canceled" -> <<n, Canceled>>
      [] OTHER -> <<n, ErrResourceExhausted>>

VARIABLES
    env,        \* the callers: the parameter tuples they use; the Get, Remove
                \* and Purge calls and the Loader invocations still to come;
                \* what their last Remove or Purge returned
    fn,         \* the type of the Loader given to New (c.fn)
    made,       \* what New, and Must after it, have returned
    opts,       \* the container's options: enableLRU, capacity, contextSupport
    ttl,        \* c.ttl
    now,        \* the clock read by time.Now()
    items,      \* c.items: key -> item id, 0 when absent (used without LRU)
    elements,   \* c.elements: key -> element id, 0 when absent (used with LRU)
    evictList,  \* c.evictList: next, prev and list of every element, and len
    objs,       \* the item objects allocated so far, by id
    tasks,      \* the load tasks (goroutines running item.refresh), by load number
    procs,      \* the calling goroutines
    crashed     \* the process has died of a panic

vars == <<env, fn, made, opts, ttl, now, items, elements, evictList, objs, tasks, procs, crashed>>

\* ------------------------------------------------------- container/list
\* An Init that resets the length and leaves the ring as it is (a variant
\* of ListInit).
ListInitLen(l) == [l EXCEPT !.len = 0]

\* list.New() / List.Init: an empty ring; the elements' own fields are not touched.
ListInit(l) ==
    [l EXCEPT !.next[Root] = Root, !.prev[Root] = Root, !.len = 0]

\* List.insert(e, at): link e after at.
ListInsert(l, e, at) ==
    LET l1 == [l EXCEPT !.prev[e] = at, !.next[e] = l.next[at]]
        l2 == [l1 EXCEPT !.next[l1.prev[e]] = e]
        l3 == [l2 EXCEPT !.prev[l2.next[e]] = e]
    IN  [l3 EXCEPT !.list[e] = TRUE, !.len = @ + 1]

\* List.remove(e): unlink e and clear its fields.
ListUnlink(l, e) ==
    LET l1 == [l EXCEPT !.next[l.prev[e]] = l.next[e]]
        l2 == [l1 EXCEPT !.prev[l1.next[e]] = l1.prev[e]]
    IN  [l2 EXCEPT !.next[e] = NilPtr, !.prev[e] = NilPtr,
                   !.list[e] = FALSE, !.len = @ - 1]

\* List.Remove(e): only an element of this list is removed.
ListRemove(l, e) == IF l.list[e] THEN ListUnlink(l, e) ELSE l

\* List.move(e, at): relink e after at; the length is not changed.
ListMove(l, e, at) ==
    IF e = at THEN l
    ELSE LET l1 == [l EXCEPT !.next[l.prev[e]] = l.next[e]]
             l2 == [l1 EXCEPT !.prev[l1.next[e]] = l1.prev[e]]
             l3 == [l2 EXCEPT !.prev[e] = at, !.next[e] = l2.next[at]]
             l4 == [l3 EXCEPT !.next[l3.prev[e]] = e]
         IN  [l4 EXCEPT !.prev[l4.next[e]] = e]

\* List.MoveToFront(e): nothing for an element of no list or the front element.
MoveToFront(l, e) ==
    IF ~l.list[e] \/ l.next[Root] = e THEN l ELSE ListMove(l, e, Root)

\* List.PushFront(v): a new element at the front.
PushFront(l, e) == ListInsert(l, e, Root)

\* List.Back(): nil for length 0, else the root's predecessor.
Back(l) == IF l.len = 0 THEN NilPtr ELSE l.prev[Root]

\* The elements reached from the root by next pointers, front first (the
\* order a traversal of the list sees); stops after MaxItems + 1 steps.
RECURSIVE Walk(_, _, _)
Walk(l, e, n) ==
    IF e = Root \/ e = NilPtr \/ n = 0 THEN <<>>
    ELSE <<e>> \o Walk(l, l.next[e], n - 1)
ListSeq(l) == Walk(l, l.next[Root], MaxItems + 1)

\* ------------------------------------------------------------ the items
\* newItem: the key and the parameters, a zero expireAt, a nil pair, an
\* open initialCh.
newItem(key, params) ==
    [key |-> key, params |-> params, value |-> 0, err |-> 0, expireAt |-> 0,
     initialed |-> FALSE, closed |-> 0, refreshing |-> FALSE]

\* generateCacheKey: the parameters written one after the other, without
\* the first one (the context) when context support is on.
generateCacheKey(params) ==
    WriteParams(IF opts.contextSupport THEN Tail(params) ELSE params)

\* The keys of the parameter tuples the callers use.
Keys == {generateCacheKey(params) : params \in env.params}

\* Len(): the number of keys of the index in use.
ContainerLen ==
    IF opts.enableLRU
    THEN Cardinality({k \in Keys : elements[k] # 0})
    ELSE Cardinality({k \in Keys : items[k] # 0})

\* A calling goroutine: its place in Get (pc), the key and the item (or
\* element) it holds, the value it has read.  History, read by no action:
\* what its Get found as it looked the key up (temp, floor: see SeenTemp,
\* SeenFloor; born: the number of items allocated till then when the key
\* was absent, else 0), and whether Value found the item fresh.  While it
\* reads the map without the lock (pc "lookup"): the map object it reads
\* (reads, see MapObject; NilPtr when it reads none) and whether a delete
\* changed that object meanwhile (raced).
IdleProc == [pc |-> "idle", params |-> <<>>, key |-> <<>>, it |-> 0, v |-> 0,
             err |-> 0, temp |-> "none", floor |-> 0, born |-> 0, fresh |-> FALSE,
             reads |-> NilPtr, raced |-> FALSE]

EmptyList ==
    [next |-> [e \in 0..MaxItems |-> IF e = Root THEN Root ELSE NilPtr],
     prev |-> [e \in 0..MaxItems |-> IF e = Root THEN Root ELSE NilPtr],
     list |-> [e \in ItemIds |-> FALSE],
     len |-> 0]

\* newContainer: the options as given; a capacity <= 0 becomes DefaultCapacity.
newContainerCapacity(capacity) ==
    IF capacity <= 0 THEN DefaultCapacity ELSE capacity

\* The options as New leaves them; given is the capacity that was passed
\* (0 when WithCapacity was not used).
Options(enableLRU, capacity, contextSupport) ==
    [enableLRU |-> enableLRU, capacity |-> newContainerCapacity(capacity),
     contextSupport |-> contextSupport, given |-> capacity]

\* The callers' part: the parameter tuples they use and the calls to come.
Callers(params, gets, loads, removes) ==
    [params |-> params, gets |-> gets, loads |-> loads, removes |-> removes,
     last |-> [op |-> "none", params |-> <<>>, key |-> <<>>, ok |-> FALSE]]

\* A context and a pointer: one pointer to the value 1 under two contexts,
\* of which one is canceled; a pointer to the value 2; and two tuples of
\* one and of three parameters.
CtxParams ==
    {<<Ctx(1, FALSE), Ptr(1, 1)>>, <<Ctx(2, TRUE), Ptr(1, 1)>>,
     <<Ctx(1, FALSE), Ptr(2, 2)>>,
     <<Ctx(1, FALSE)>>, <<Ctx(1, FALSE), Ptr(1, 1), Ptr(2, 2)>>}

\* One parameter, a pointer: three pointers to the value 1 and one to the
\* value 2.
PtrParams == {<<Ptr(1, 1)>>, <<Ptr(2, 1)>>, <<Ptr(3, 1)>>, <<Ptr(4, 2)>>}

\* One parameter, a plain value: the tuples of the first n values.
PlainParams(n) == {<<Val(v)>> : v \in 1..n}

InitRest ==
    /\ made = <<"New", 0>>
    /\ ttl \in 1..MaxTTL
    /\ now = 0
    /\ items = [k \in Keys |-> 0]
    /\ elements = [k \in Keys |-> 0]
    /\ evictList = EmptyList
    /\ objs = <<>>
    /\ tasks = <<>>
    /\ procs = [p \in Procs |-> IdleProc]
    /\ crashed = FALSE

\* A container without LRU, used with one key and never emptied.
Init ==
    /\ env = Callers(PlainParams(1), MaxGets, MaxLoads, 0)
    /\ fn = LoaderType(1)
    /\ opts = Options(FALSE, 0, FALSE)
    /\ InitRest

\* A container without LRU, used with one key, with Remove and Purge.
InitRm ==
    /\ env = Callers(PlainParams(1), MaxGetsRm, MaxLoadsRm, MaxRemovesRm)
    /\ fn = LoaderType(1)
    /\ opts = Options(FALSE, 0, FALSE)
    /\ InitRest

\* A container with LRU and a capacity of 1..MaxCap, used with one key.
InitHang ==
    /\ env = Callers(PlainParams(1), MaxGetsHang, MaxLoadsHang, 0)
    /\ fn = LoaderType(1)
    /\ \E capacity \in 1..MaxCap : opts = Options(TRUE, capacity, FALSE)
    /\ InitRest

\* A container with LRU, a capacity of 1..MaxCap and context support; the
\* Loader takes a context and one more parameter.
InitCtx ==
    /\ env = Callers(CtxParams, MaxGetsCtx, MaxLoadsCtx, MaxRemovesCtx)
    /\ fn = LoaderType(2)
    /\ \E capacity \in 1..MaxCap : opts = Options(TRUE, capacity, TRUE)
    /\ InitRest

\* A container with LRU and a capacity of 1..MaxCap; the Loader takes one
\* parameter, for which the callers pass pointers.
InitPtr ==
    /\ env = Callers(PtrParams, MaxGetsPtr, MaxLoadsPtr, MaxRemovesPtr)
    /\ fn = LoaderType(1)
    /\ \E capacity \in 1..MaxCap : opts = Options(TRUE, capacity, FALSE)
    /\ InitRest

\* Before New: any value as the Loader, with or without LRU, a capacity of
\* 0..MaxCap given.
InitNew ==
    /\ env = Callers({}, 0, 0, 0)
    /\ fn \in FnTypes
    /\ \E enableLRU \in BOOLEAN, capacity \in 0..MaxCap :
           opts = [enableLRU |-> enableLRU, capacity |-> capacity,
                   contextSupport |-> FALSE, given |-> capacity]
    /\ made = <<"none", 0>>
    /\ ttl \in 1..MaxTTL
    /\ now = 0
    /\ items = [k \in Keys |-> 0]
    /\ elements = [k \in Keys |-> 0]
    /\ evictList = EmptyList
    /\ objs = <<>>
    /\ tasks = <<>>
    /\ procs = [p \in Procs |-> IdleProc]
    /\ crashed = FALSE

\* A container without LRU that was given a capacity, used with two keys.
InitCap ==
    /\ env = Callers(PlainParams(2), MaxGetsCap, MaxLoadsCap, MaxRemovesCap)
    /\ fn = LoaderType(1)
    /\ \E capacity \in 1..MaxCap : opts = Options(FALSE, capacity, FALSE)
    /\ InitRest

\* A container without LRU, used with one key, with its Remove and Purge
\* calls.
InitLive ==
    /\ env = Callers(PlainParams(1), MaxGetsLive, MaxLoadsLive, MaxRemovesLive)
    /\ fn = LoaderType(1)
    /\ opts = Options(FALSE, 0, FALSE)
    /\ InitRest

\* A container with or without LRU, used with one key, with its Remove and
\* Purge calls.
InitRace ==
    /\ env = Callers(PlainParams(1), MaxGetsRace, MaxLoadsRace, MaxRemovesRace)
    /\ fn = LoaderType(1)
    /\ \E enableLRU \in BOOLEAN : opts = Options(enableLRU, MaxCap, FALSE)
    /\ InitRest

\* A container with LRU and a capacity of TwoEntries, used with two keys.
InitTwo ==
    /\ env = Callers(PlainParams(2), MaxGetsTwo, MaxLoadsTwo, MaxRemovesTwo)
    /\ fn = LoaderType(1)
    /\ opts = Options(TRUE, TwoEntries, FALSE)
    /\ InitRest

\* A container with LRU and a capacity of 1..MaxCap, used with one key.
InitPurge ==
    /\ env = Callers(PlainParams(1), MaxGetsPurge, MaxLoadsPurge, MaxRemovesPurge)
    /\ fn = LoaderType(1)
    /\ \E capacity \in 1..MaxCap : opts = Options(TRUE, capacity, FALSE)
    /\ InitRest

\* A container with LRU and a capacity of 1..MaxCap, used with every key.
InitLRU ==
    /\ env = Callers(PlainParams(NumKeys), MaxGetsLRU, MaxLoadsLRU, MaxRemoves)
    /\ fn = LoaderType(1)
    /\ \E capacity \in 1..MaxCap : opts = Options(TRUE, capacity, FALSE)
    /\ InitRest

\* ------------------------------------------------------------ helpers
SetProc(p, r) == [procs EXCEPT ![p] = r]
SetObj(i, r) == [objs EXCEPT ![i] = r]
SetTask(n, r) == [tasks EXCEPT ![n] = r]

\* removeElement(e): the element leaves the list and its item's key leaves
\* the map, whatever element the key maps to.  The root element holds no
\* item: the type assertion e.Value.(*item) panics on it.
removeElementPanics(e) == e = Root
removeElementList(l, e) == IF e = Root THEN l ELSE ListRemove(l, e)
removeElementMap(els, os, e) == IF e = Root THEN els ELSE [els EXCEPT ![os[e].key] = 0]

\* ------------------------------------------------------------ history
\* The item the index in use holds for a key, 0 when absent.
Indexed(key) == IF opts.enableLRU THEN elements[key] ELSE items[key]

\* The map object c.items (c.elements) points to: getLocked and getLockedLRU
\* put a copy in its place with every item they make; Remove and Purge
\* delete from the object itself.
MapObject == Len(objs)

\* The goroutines after a delete from the map object: those that are reading
\* that object without the lock have raced with the delete.
Overlapped ==
    [p \in Procs |->
        IF procs[p].pc = "lookup" /\ procs[p].reads = MapObject
        THEN [procs[p] EXCEPT !.raced = TRUE]
        ELSE procs[p]]

\* The loads of item i whose Loader invocation has returned, and those that
\* have run to their end having stored their pair, by number.
Returned(i) == {n \in 1..Len(tasks) : tasks[n].item = i /\ tasks[n].pc # "load"}
Stored(i) == {n \in 1..Len(tasks) :
                 tasks[n].item = i /\ tasks[n].pc = "done" /\ tasks[n].kind # "exh"}
Max(S) == IF S = {} THEN 0 ELSE CHOOSE x \in S : \A y \in S : y <= x

\* What a Get finds as it looks its key up and finds item i (0: none):
\* whether no Loader invocation of the item has returned yet ("cold"),
\* whether the item is initialed ("warm"), or neither ("mid"); and the last
\* load of the item that has ended with a stored pair (0: none).
SeenTemp(i) ==
    IF i = 0 \/ Returned(i) = {} THEN "cold"
    ELSE IF objs[i].initialed THEN "warm" ELSE "mid"
SeenFloor(i) == IF i = 0 THEN 0 ELSE Max(Stored(i))

\* ---------------------------------------------------------------- New
\* reflect.TypeOf(fn) is nil for a nil interface, and t.Kind() then panics.
NewPanics == fn.kind = "nil"

\* newContainer: t.Kind() != reflect.Func || t.NumOut() != 2
InvalidFn == fn.kind # "func" \/ fn.numOut # 2

\* New: the container, or ErrInvalidFn and no container; made holds what
\* it returned last (0 for a nil error).
New ==
    /\ ~crashed
    /\ made = <<"none", 0>>
    /\ IF NewPanics
       THEN crashed' = TRUE /\ UNCHANGED <<made, opts>>
       ELSE IF InvalidFn
            THEN /\ made' = <<"New", ErrInvalidFn>>
                 /\ UNCHANGED <<opts, crashed>>
            ELSE /\ made' = <<"New", 0>>
                 /\ opts' = Options(opts.enableLRU, opts.given, opts.contextSupport)
                 /\ UNCHANGED crashed
    /\ UNCHANGED <<env, fn, ttl, now, items, elements, evictList, objs, tasks, procs>>

\* Must: panics with the error of New, else returns the container.
Must ==
    /\ ~crashed
    /\ made[1] = "New"
    /\ IF made[2] # 0
       THEN made' = <<"panic", made[2]>> /\ crashed' = TRUE
       ELSE made' = <<"Must", 0>> /\ UNCHANGED crashed
    /\ UNCHANGED <<env, fn, opts, ttl, now, items, elements, evictList, objs, tasks, procs>>

\* ---------------------------------------------------------------- Get
\* Get: the parameter count is right, the key is computed and looked up in
\* c.items or c.elements without the container lock.
\* A parameter check that lets fewer parameters than the Loader takes pass
\* (a variant of ParamsAdapted).
ParamsAtMost(params) == Len(params) <= fn.numIn

\* Get: len(params) != c.fnNumIn fails the check.
ParamsAdapted(params) == Len(params) = fn.numIn

GetLookup(p, params) ==
    /\ ~crashed
    /\ procs[p].pc = "idle"
    /\ env.gets > 0
    /\ ParamsAdapted(params)
    /\ env' = [env EXCEPT !.gets = @ - 1]
    /\ LET key == generateCacheKey(params)
           found == Indexed(key)
       IN  procs' = SetProc(p, [pc |-> IF found = 0 THEN "create"
                                       ELSE IF opts.enableLRU THEN "touch" ELSE "value",
                                params |-> params, key |-> key, it |-> found, v |-> 0,
                                err |-> 0,
                                temp |-> SeenTemp(found), floor |-> SeenFloor(found),
                                born |-> IF found = 0 THEN Len(objs) ELSE 0,
                                fresh |-> FALSE, reads |-> NilPtr, raced |-> FALSE])
    /\ UNCHANGED <<fn, made, opts, ttl, now, items, elements, evictList, objs, tasks, crashed>>

\* Get: the parameter count is wrong; (nil, ErrFnParams) is what it returns.
\* Get, its lookup taking time: the goroutine begins to read the map
\* c.items (c.elements) points to, without the lock; it holds what that map
\* has for the key.
GetReads(p, params) ==
    /\ ~crashed
    /\ procs[p].pc = "idle"
    /\ env.gets > 0
    /\ ParamsAdapted(params)
    /\ env' = [env EXCEPT !.gets = @ - 1]
    /\ LET key == generateCacheKey(params)
       IN  procs' = SetProc(p, [IdleProc EXCEPT !.pc = "lookup", !.params = params,
                                               !.key = key, !.it = Indexed(key),
                                               !.reads = MapObject])
    /\ UNCHANGED <<fn, made, opts, ttl, now, items, elements, evictList, objs, tasks, crashed>>

\* What the read of the map yields: the item the map had for the key, or,
\* when a delete changed the map during the read (a data race), that item or
\* nothing.
LookupYields(p) == IF procs[p].raced THEN {procs[p].it, 0} ELSE {procs[p].it}

\* The lookup ends; Get goes on as after GetLookup.
GetLooksUp(p) ==
    /\ ~crashed
    /\ procs[p].pc = "lookup"
    /\ \E found \in LookupYields(p) :
           procs' = SetProc(p, [procs[p] EXCEPT
                                   !.pc = IF found = 0 THEN "create"
                                          ELSE IF opts.enableLRU THEN "touch" ELSE "value",
                                   !.it = found,
                                   !.temp = SeenTemp(found), !.floor = SeenFloor(found),
                                   !.born = IF found = 0 THEN Len(objs) ELSE 0,
                                   !.reads = NilPtr])
    /\ UNCHANGED <<env, fn, made, opts, ttl, now, items, elements, evictList, objs, tasks, crashed>>

\* The runtime finds the map read and written at once and ends the process
\* ("fatal error: concurrent map read and map write").
GetLookupFaults(p) ==
    /\ ~crashed
    /\ procs[p].pc = "lookup"
    /\ procs[p].raced
    /\ crashed' = TRUE
    /\ UNCHANGED <<env, fn, made, opts, ttl, now, items, elements, evictList, objs, tasks, procs>>

GetErrFnParams(p, params) ==
    /\ ~crashed
    /\ procs[p].pc = "idle"
    /\ env.gets > 0
    /\ ~ParamsAdapted(params)
    /\ env' = [env EXCEPT !.gets = @ - 1]
    /\ procs' = SetProc(p, [IdleProc EXCEPT !.pc = "errparams", !.params = params,
                                            !.v = 0, !.err = ErrFnParams])
    /\ UNCHANGED <<fn, made, opts, ttl, now, items, elements, evictList, objs, tasks, crashed>>

\* Get returns (nil, ErrFnParams) to its caller.
GetReturnsErrFnParams(p) ==
    /\ ~crashed
    /\ procs[p].pc = "errparams"
    /\ procs' = SetProc(p, IdleProc)
    /\ UNCHANGED <<env, fn, made, opts, ttl, now, items, elements, evictList, objs, tasks, crashed>>

\* Get, LRU hit: Lock, MoveToFront of the element found, Unlock.
GetTouch(p) ==
    /\ ~crashed
    /\ procs[p].pc = "touch"
    /\ evictList' = MoveToFront(evictList, procs[p].it)
    /\ procs' = SetProc(p, [procs[p] EXCEPT !.pc = "value"])
    /\ UNCHANGED <<env, fn, made, opts, ttl, now, items, elements, objs, tasks, crashed>>

\* A getLocked that puts the last item the key had back into the map when
\* the key is absent and has had an item (a variant of getLocked).
getLockedReviving(p) ==
    LET key == procs[p].key
        old == Max({j \in 1..Len(objs) : objs[j].key = key})
        id == IF old = 0 THEN Len(objs) + 1 ELSE old
    IN  IF items[key] # 0
        THEN /\ procs' = SetProc(p, [procs[p] EXCEPT !.it = items[key], !.pc = "value"])
             /\ UNCHANGED <<items, objs>>
        ELSE /\ id <= MaxItems
             /\ objs' = IF old = 0 THEN Append(objs, newItem(key, procs[p].params)) ELSE objs
             /\ items' = [items EXCEPT ![key] = id]
             /\ procs' = SetProc(p, [procs[p] EXCEPT !.it = id, !.pc = "value"])

\* getLocked: the item of the key, created (in a copy of the map) when absent.
\* getLocked keeping to the capacity: a new key, when the map is full, takes
\* the place of a key that is in it.
getLockedBounded(p) ==
    LET key == procs[p].key
        id == Len(objs) + 1
        full == Cardinality({k \in Keys : items[k] # 0}) >= opts.capacity
        out == CHOOSE k \in Keys : full => items[k] # 0
    IN  IF items[key] # 0
        THEN /\ procs' = SetProc(p, [procs[p] EXCEPT !.it = items[key], !.pc = "value"])
             /\ UNCHANGED <<items, objs>>
        ELSE /\ id <= MaxItems
             /\ objs' = Append(objs, newItem(key, procs[p].params))
             /\ items' = [k \in Keys |-> IF k = key THEN id
                                          ELSE IF full /\ k = out THEN 0 ELSE items[k]]
             /\ procs' = SetProc(p, [procs[p] EXCEPT !.it = id, !.pc = "value"])

\* getLocked without the second look at c.items under the lock: every Get
\* that missed the key allocates an item of its own.
getLockedUnchecked(p) ==
    LET key == procs[p].key
        id == Len(objs) + 1
    IN  /\ id <= MaxItems
        /\ objs' = Append(objs, newItem(key, procs[p].params))
        /\ items' = [items EXCEPT ![key] = id]
        /\ procs' = SetProc(p, [procs[p] EXCEPT !.it = id, !.pc = "value"])

getLocked(p) ==
    LET key == procs[p].key
        id == Len(objs) + 1
    IN  IF items[key] # 0
        THEN /\ procs' = SetProc(p, [procs[p] EXCEPT !.it = items[key], !.pc = "value"])
             /\ UNCHANGED <<items, objs>>
        ELSE /\ id <= MaxItems
             /\ objs' = Append(objs, newItem(key, procs[p].params))
             /\ items' = [items EXCEPT ![key] = id]
             /\ procs' = SetProc(p, [procs[p] EXCEPT !.it = id, !.pc = "value"])

\* getLockedLRU: the element of the key moved to the front, or a new element
\* pushed to the front; the oldest element is removed when the list is then
\* longer than the capacity.
OverCapacity(len) == len > opts.capacity

getLockedLRU(p) ==
    LET key == procs[p].key
        id == Len(objs) + 1
        pushed == PushFront(evictList, id)
        added == [elements EXCEPT ![key] = id]
        oldest == Back(pushed)
        evicts == OverCapacity(pushed.len) /\ oldest # NilPtr
    IN  IF elements[key] # 0
        THEN /\ evictList' = MoveToFront(evictList, elements[key])
             /\ procs' = SetProc(p, [procs[p] EXCEPT !.it = elements[key], !.pc = "value"])
             /\ UNCHANGED <<elements, objs, crashed>>
        ELSE /\ id <= MaxItems
             /\ objs' = Append(objs, newItem(key, procs[p].params))
             /\ IF evicts
                THEN /\ evictList' = removeElementList(pushed, oldest)
                     /\ elements' = removeElementMap(added, objs', oldest)
                     /\ crashed' = removeElementPanics(oldest)
                ELSE /\ evictList' = pushed
                     /\ elements' = added
                     /\ crashed' = FALSE
             /\ procs' = SetProc(p, [procs[p] EXCEPT !.it = id, !.pc = "value"])

\* Get, miss: Lock, getLocked or getLockedLRU, Unlock.
GetCreate(p) ==
    /\ ~crashed
    /\ procs[p].pc = "create"
    /\ IF opts.enableLRU
       THEN getLockedLRU(p) /\ UNCHANGED items
       ELSE getLocked(p) /\ UNCHANGED <<elements, evictList, crashed>>
    /\ UNCHANGED <<env, fn, made, opts, ttl, now, tasks>>

\* ------------------------------------------------------------ item.Value
\* Value: time.Now().Before(i.expireAt); a fresh item returns its pair.
ValueFresh(p) == now < objs[procs[p].it].expireAt

ValueCheck(p) ==
    /\ ~crashed
    /\ procs[p].pc = "value"
    /\ procs' = SetProc(p, [procs[p] EXCEPT
                   !.pc = IF ValueFresh(p) THEN "rdval" ELSE "refresh",
                   !.fresh = ValueFresh(p)])
    /\ UNCHANGED <<env, fn, made, opts, ttl, now, items, elements, evictList, objs, tasks, crashed>>

\* Refresh, under the item's lock: nothing when refreshing is set; else set
\* it and start the load task (go i.refresh()).
RefreshStarts(i) == ~objs[i].refreshing

Refresh(p) ==
    /\ ~crashed
    /\ procs[p].pc = "refresh"
    /\ LET i == procs[p].it
       IN  IF RefreshStarts(i)
           THEN /\ env.loads > 0
                /\ env' = [env EXCEPT !.loads = @ - 1]
                /\ objs' = SetObj(i, [objs[i] EXCEPT !.refreshing = TRUE])
                /\ tasks' = Append(tasks, [item |-> i, pc |-> "load", kind |-> "none",
                                            start |-> now, exp |-> 0])
           ELSE UNCHANGED <<env, objs, tasks>>
    /\ procs' = SetProc(p, [procs[p] EXCEPT !.pc = "chkinit"])
    /\ UNCHANGED <<fn, made, opts, ttl, now, items, elements, evictList, crashed>>

\* A Value that waits for a running reload as well (a variant of ValueWaits).
ValueWaitsForReload(p) ==
    ~objs[procs[p].it].initialed \/ objs[procs[p].it].refreshing

\* Value: if !i.initialed, wait on initialCh.
ValueWaits(p) == ~objs[procs[p].it].initialed

ValueCheckInitialed(p) ==
    /\ ~crashed
    /\ procs[p].pc = "chkinit"
    /\ procs' = SetProc(p, [procs[p] EXCEPT
                   !.pc = IF ValueWaits(p) THEN "wait" ELSE "rdval"])
    /\ UNCHANGED <<env, fn, made, opts, ttl, now, items, elements, evictList, objs, tasks, crashed>>

\* Value: <-i.initialCh returns once the channel is closed.
ChannelClosed(i) == objs[i].closed > 0

ValueWait(p) ==
    /\ ~crashed
    /\ procs[p].pc = "wait"
    /\ ChannelClosed(procs[p].it)
    /\ procs' = SetProc(p, [procs[p] EXCEPT !.pc = "rdval"])
    /\ UNCHANGED <<env, fn, made, opts, ttl, now, items, elements, evictList, objs, tasks, crashed>>

\* Value: return i.value, i.err reads the two fields one after the other.
ValueReadValue(p) ==
    /\ ~crashed
    /\ procs[p].pc = "rdval"
    /\ procs' = SetProc(p, [procs[p] EXCEPT !.v = objs[procs[p].it].value, !.pc = "rderr"])
    /\ UNCHANGED <<env, fn, made, opts, ttl, now, items, elements, evictList, objs, tasks, crashed>>

\* The pair Value returns when it reads i.err now.
Returns(p) == <<procs[p].v, objs[procs[p].it].err>>

\* Value reads i.err and returns; Get returns the pair to its caller.
ValueReadErr(p) ==
    /\ ~crashed
    /\ procs[p].pc = "rderr"
    /\ procs' = SetProc(p, IdleProc)
    /\ UNCHANGED <<env, fn, made, opts, ttl, now, items, elements, evictList, objs, tasks, crashed>>

\* ---------------------------------------------------------- item.refresh
\* loadData returns, with any of the three outcomes, and refresh does its
\* first write: i.value = val, or i.expireAt when the error is the sentinel
\* (the return itself touches nothing another goroutine reads).
NewExpireAt == now + ttl

\* A loadData that calls the Loader with the parameters of the Get that
\* created the item, its context included (a variant of LoaderParams).
CallerParams(i) == objs[i].params

\* loadData: the parameters the Loader is called with; with context support
\* the first one is replaced by context.Background().
LoaderParams(i) ==
    IF opts.contextSupport
    THEN <<Background>> \o Tail(objs[i].params)
    ELSE objs[i].params

\* The outcomes load n may have: the context's error too when the Loader
\* is called with a canceled context.
OutcomesOf(n) ==
    IF \E k \in 1..Len(LoaderParams(tasks[n].item)) :
           LoaderParams(tasks[n].item)[k].canceled
    THEN Outcomes \cup {"canceled"}
    ELSE Outcomes

StoresPair(n, kind) == LoaderPair(n, kind)[2] # ErrResourceExhausted

LoaderReturn(n, kind) ==
    /\ ~crashed
    /\ tasks[n].pc = "load"
    /\ IF StoresPair(n, kind)
       THEN /\ objs' = SetObj(tasks[n].item, [objs[tasks[n].item] EXCEPT
                          !.value = LoaderPair(n, kind)[1]])
            /\ tasks' = SetTask(n, [tasks[n] EXCEPT !.kind = kind, !.pc = "werr"])
       ELSE /\ objs' = SetObj(tasks[n].item, [objs[tasks[n].item] EXCEPT
                          !.expireAt = NewExpireAt])
            /\ tasks' = SetTask(n, [tasks[n] EXCEPT !.kind = kind, !.pc = "wref",
                                                   !.exp = NewExpireAt])
    /\ UNCHANGED <<env, fn, made, opts, ttl, now, items, elements, evictList, procs, crashed>>

\* i.err = err
WriteErr(n) ==
    /\ ~crashed
    /\ tasks[n].pc = "werr"
    /\ objs' = SetObj(tasks[n].item, [objs[tasks[n].item] EXCEPT
                   !.err = LoaderPair(n, tasks[n].kind)[2]])
    /\ tasks' = SetTask(n, [tasks[n] EXCEPT !.pc = "wexp"])
    /\ UNCHANGED <<env, fn, made, opts, ttl, now, items, elements, evictList, procs, crashed>>

\* i.expireAt = time.Now().Add(i.c.ttl)
WriteExpire(n) ==
    /\ ~crashed
    /\ tasks[n].pc = "wexp"
    /\ objs' = SetObj(tasks[n].item, [objs[tasks[n].item] EXCEPT !.expireAt = NewExpireAt])
    /\ tasks' = SetTask(n, [tasks[n] EXCEPT !.pc = "wref", !.exp = NewExpireAt])
    /\ UNCHANGED <<env, fn, made, opts, ttl, now, items, elements, evictList, procs, crashed>>

\* i.refreshing = false
ClearRefreshing(n) ==
    /\ ~crashed
    /\ tasks[n].pc = "wref"
    /\ objs' = SetObj(tasks[n].item, [objs[tasks[n].item] EXCEPT !.refreshing = FALSE])
    /\ tasks' = SetTask(n, [tasks[n] EXCEPT !.pc = "chk"])
    /\ UNCHANGED <<env, fn, made, opts, ttl, now, items, elements, evictList, procs, crashed>>

\* if !i.initialed
TaskCheckInitialed(n) ==
    /\ ~crashed
    /\ tasks[n].pc = "chk"
    /\ tasks' = SetTask(n, [tasks[n] EXCEPT
                   !.pc = IF objs[tasks[n].item].initialed THEN "done" ELSE "set"])
    /\ UNCHANGED <<env, fn, made, opts, ttl, now, items, elements, evictList, objs, procs, crashed>>

\* i.initialed = true
TaskSetInitialed(n) ==
    /\ ~crashed
    /\ tasks[n].pc = "set"
    /\ objs' = SetObj(tasks[n].item, [objs[tasks[n].item] EXCEPT !.initialed = TRUE])
    /\ tasks' = SetTask(n, [tasks[n] EXCEPT !.pc = "close"])
    /\ UNCHANGED <<env, fn, made, opts, ttl, now, items, elements, evictList, procs, crashed>>

\* close(i.initialCh): closing a closed channel panics.
TaskClose(n) ==
    /\ ~crashed
    /\ tasks[n].pc = "close"
    /\ objs' = SetObj(tasks[n].item, [objs[tasks[n].item] EXCEPT !.closed = @ + 1])
    /\ crashed' = (objs[tasks[n].item].closed > 0)
    /\ tasks' = SetTask(n, [tasks[n] EXCEPT !.pc = "done"])
    /\ UNCHANGED <<env, fn, made, opts, ttl, now, items, elements, evictList, procs>>

\* ------------------------------------------------------- Remove, Purge
\* Remove, under the container lock.
\* Remove returns whether the key was in the index.
RemoveReturns(params) == Indexed(generateCacheKey(params)) # 0

Remove(params) ==
    /\ ~crashed
    /\ env.removes > 0
    /\ LET key == generateCacheKey(params)
       IN  /\ env' = [env EXCEPT !.removes = @ - 1,
                                 !.last = [op |-> "Remove", params |-> params,
                                           key |-> key,
                                           ok |-> RemoveReturns(params)]]
           /\ IF opts.enableLRU
              THEN /\ IF elements[key] # 0
                      THEN /\ evictList' = removeElementList(evictList, elements[key])
                           /\ elements' = removeElementMap(elements, objs, elements[key])
                      ELSE UNCHANGED <<elements, evictList>>
                   /\ UNCHANGED items
              ELSE /\ IF items[key] # 0
                      THEN items' = [items EXCEPT ![key] = 0]
                      ELSE UNCHANGED items
                   /\ UNCHANGED <<elements, evictList>>
    /\ procs' = IF RemoveReturns(params) THEN Overlapped ELSE procs
    /\ UNCHANGED <<fn, made, opts, ttl, now, objs, tasks, crashed>>

\* Purge, under the container lock.
Purge ==
    /\ ~crashed
    /\ env.removes > 0
    /\ env' = [env EXCEPT !.removes = @ - 1,
                          !.last = [op |-> "Purge", params |-> <<>>, key |-> <<>>,
                                    ok |-> TRUE]]
    /\ IF opts.enableLRU
       THEN /\ elements' = [k \in Keys |-> 0]
            /\ evictList' = ListInit(evictList)
            /\ UNCHANGED items
       ELSE /\ items' = [k \in Keys |-> 0]
            /\ UNCHANGED <<elements, evictList>>
    /\ procs' = IF \E k \in Keys : Indexed(k) # 0 THEN Overlapped ELSE procs
    /\ UNCHANGED <<fn, made, opts, ttl, now, objs, tasks, crashed>>

\* The clock advances.
Tick ==
    /\ ~crashed
    /\ now < MaxTime
    /\ now' = now + 1
    /\ UNCHANGED <<env, fn, made, opts, ttl, items, elements, evictList, objs, tasks, procs, crashed>>

\* The parameter tuples callers pass.
ParamTuples == env.params

NextGet ==
    \/ \E p \in Procs, params \in ParamTuples : GetLookup(p, params)
    \/ \E p \in Procs : GetCreate(p)
    \/ \E p \in Procs : ValueCheck(p)
    \/ \E p \in Procs : Refresh(p)
    \/ \E p \in Procs : ValueCheckInitialed(p)
    \/ \E p \in Procs : ValueWait(p)
    \/ \E p \in Procs : ValueReadValue(p)
    \/ \E p \in Procs : ValueReadErr(p)

NextLoad ==
    \/ \E n \in 1..Len(tasks) : \E kind \in OutcomesOf(n) : LoaderReturn(n, kind)
    \/ \E n \in 1..Len(tasks) : WriteErr(n)
    \/ \E n \in 1..Len(tasks) : WriteExpire(n)
    \/ \E n \in 1..Len(tasks) : ClearRefreshing(n)
    \/ \E n \in 1..Len(tasks) : TaskCheckInitialed(n)
    \/ \E n \in 1..Len(tasks) : TaskSetInitialed(n)
    \/ \E n \in 1..Len(tasks) : TaskClose(n)

\* A container that is never emptied and has no recency list.
Next == NextGet \/ NextLoad \/ Tick

NextLRU ==
    \/ Next
    \/ \E p \in Procs : GetTouch(p)
    \/ \E params \in ParamTuples : Remove(params)
    \/ Purge

\* A container with LRU whose callers also pass parameters that do not
\* fit the Loader.
\* A container whose Gets take time to read the map.
NextRace ==
    \/ \E p \in Procs, params \in ParamTuples : GetReads(p, params)
    \/ \E p \in Procs : GetLooksUp(p)
    \/ \E p \in Procs : GetLookupFaults(p)
    \/ \E p \in Procs : GetCreate(p)
    \/ \E p \in Procs : GetTouch(p)
    \/ \E p \in Procs : ValueCheck(p)
    \/ \E p \in Procs : Refresh(p)
    \/ \E p \in Procs : ValueCheckInitialed(p)
    \/ \E p \in Procs : ValueWait(p)
    \/ \E p \in Procs : ValueReadValue(p)
    \/ \E p \in Procs : ValueReadErr(p)
    \/ NextLoad
    \/ Tick
    \/ \E params \in ParamTuples : Remove(params)
    \/ Purge

NextCtx ==
    \/ NextLRU
    \/ \E p \in Procs, params \in ParamTuples : GetErrFnParams(p, params)
    \/ \E p \in Procs : GetReturnsErrFnParams(p)

\* The construction of a container.
NextNew == New \/ Must

\* A container without LRU that Remove and Purge empty.
NextRm ==
    \/ Next
    \/ \E params \in ParamTuples : Remove(params)
    \/ Purge

\* A container with LRU that is never emptied.
NextHang ==
    \/ Next
    \/ \E p \in Procs : GetTouch(p)

\* A step of goroutine p inside Get, after the lookup.
GetRuns(p) ==
    \/ GetCreate(p) \/ GetTouch(p)
    \/ ValueCheck(p) \/ Refresh(p) \/ ValueCheckInitialed(p) \/ ValueWait(p)
    \/ ValueReadValue(p) \/ ValueReadErr(p)

\* A step of load task n after its Loader invocation has returned.
refreshRuns(n) ==
    /\ n <= Len(tasks)
    /\ \/ WriteErr(n) \/ WriteExpire(n) \/ ClearRefreshing(n)
       \/ TaskCheckInitialed(n) \/ TaskSetInitialed(n) \/ TaskClose(n)

\* The scheduler runs every goroutine that can take a step; a Loader
\* invocation returns or not as it likes.
FairHang ==
    /\ \A p \in Procs : WF_vars(GetRuns(p))
    /\ \A n \in 1..MaxLoadsHang : WF_vars(refreshRuns(n))

Spec == Init /\ [][Next]_vars

SpecCtx == InitCtx /\ [][NextCtx]_vars

SpecPtr == InitPtr /\ [][NextLRU]_vars

SpecNew == InitNew /\ [][NextNew]_vars

SpecTwo == InitTwo /\ [][NextLRU]_vars

SpecPurge == InitPurge /\ [][NextLRU]_vars

SpecHang == InitHang /\ [][NextHang]_vars /\ FairHang

SpecRm == InitRm /\ [][NextRm]_vars

SpecRace == InitRace /\ [][NextRace]_vars

\* The Loader returns from every call; a goroutine that can run does run.
LoaderReturns(n) ==
    /\ n <= Len(tasks)
    /\ \E kind \in OutcomesOf(n) : LoaderReturn(n, kind)

FairLive ==
    /\ \A p \in Procs : WF_vars(GetRuns(p))
    /\ \A n \in 1..MaxLoadsLive : WF_vars(refreshRuns(n))
    /\ \A n \in 1..MaxLoadsLive : WF_vars(LoaderReturns(n))

SpecLive == InitLive /\ [][NextRm]_vars /\ FairLive

SpecCap == InitCap /\ [][NextRm]_vars

SpecLRU == InitLRU /\ [][NextLRU]_vars

\* --------------------------------------------------------- properties
\* The loads of item i, by number.
LoadsOf(i) == {n \in 1..Len(tasks) : tasks[n].item = i}

\* Goroutine p is in Refresh and will start a load task.
StartsLoad(p) ==
    /\ procs[p].pc = "refresh"
    /\ RefreshStarts(procs[p].it)
    /\ env.loads > 0

\* C1: Gets on a key issued before the first load of its item has completed
\* invoke the Loader once between them: such a Get starts a load only for an
\* item that has had none.
C1_ColdGetsLoadOnce ==
    \A p \in Procs :
        (procs[p].temp = "cold" /\ StartsLoad(p)) => LoadsOf(procs[p].it) = {}

\* C2: no Loader invocation of an item starts, or runs, while an earlier load
\* task of the same item has not finished.
C2_OneLoadTaskPerItem ==
    \A n, m \in 1..Len(tasks) :
        (n < m /\ tasks[n].item = tasks[m].item /\ tasks[m].pc = "load")
            => tasks[n].pc = "done"

\* C4: a Get that finds its item initialed never waits on initialCh, whether
\* the item is fresh, expired or being reloaded.
C4_WarmGetNeverWaits ==
    \A p \in Procs : procs[p].temp = "warm" => procs[p].pc # "wait"

\* C4, the case: a Get that found the item initialed, then expired, reads
\* the stored value while a reload is in flight.
C4_Witness ==
    \E p \in Procs :
        /\ procs[p].temp = "warm"
        /\ ~procs[p].fresh
        /\ procs[p].pc = "rdval"
        /\ \E n \in LoadsOf(procs[p].it) : tasks[n].pc = "load"

\* C5: once a load of an item has set expireAt to t + ttl, no later load of
\* that item starts before t + ttl.
C5_NoLoadWithinTTL ==
    \A n, m \in 1..Len(tasks) :
        (n < m /\ tasks[n].item = tasks[m].item /\ tasks[n].exp > 0)
            => tasks[m].start >= tasks[n].exp

\* The pair load n has returned.
PairOf(n) == LoaderPair(n, tasks[n].kind)

\* The loads of item i that have returned a pair to store, by number.
Storing(i) == {n \in Returned(i) : tasks[n].kind # "exh"}

\* Load n is a reload: it started at or after the expiry that an earlier
\* load of its item, which stored its pair and ended, had set.
IsReload(n) ==
    \E k \in Stored(tasks[n].item) : k < n /\ tasks[n].start >= tasks[k].exp

\* C3: a Get issued once a load has completed, that finds the item fresh and
\* returns before the expiry that load set, returns the pair of that load.
C3_FreshGetReturnsCachedPair ==
    \A p \in Procs :
        (/\ procs[p].pc = "rderr"
         /\ procs[p].fresh
         /\ procs[p].floor > 0
         /\ now < tasks[procs[p].floor].exp)
            => Returns(p) = PairOf(procs[p].floor)

\* C6: a Get issued after a reload that stored its pair has completed
\* returns the pair of that reload or of a later load of the item.
C6_GetAfterReloadReturnsItsPair ==
    \A p \in Procs :
        (/\ procs[p].pc = "rderr"
         /\ procs[p].floor > 0
         /\ IsReload(procs[p].floor))
            => \E m \in Storing(procs[p].it) :
                  m >= procs[p].floor /\ Returns(p) = PairOf(m)

\* C7: after a reload of an already loaded item has returned the sentinel
\* and set expireAt, no later load of the item starts before that expiry.
C7_NoLoadWithinTTLOfExhausted ==
    \A n, m \in 1..Len(tasks) :
        (/\ n < m
         /\ tasks[n].item = tasks[m].item
         /\ tasks[n].kind = "exh"
         /\ IsReload(n))
            => tasks[m].start >= tasks[n].exp

\* C8: a Get issued after a load that returned an ordinary error has
\* completed, and returning before the expiry that load set, returns the
\* error of that load.
C8_ErrorReturnedUntilExpiry ==
    \A p \in Procs :
        (/\ procs[p].pc = "rderr"
         /\ procs[p].floor > 0
         /\ tasks[procs[p].floor].kind = "err"
         /\ now < tasks[procs[p].floor].exp)
            => Returns(p)[2] = PairOf(procs[p].floor)[2]

\* C9: with LRU, Len() never exceeds the capacity.
C9_LenWithinCapacity == opts.enableLRU => ContainerLen <= opts.capacity

\* The keys of the index.
Resident == {k \in Keys : elements[k] # 0}

\* Goroutine p inserts its key, absent till now, and the index then holds
\* more keys than the capacity.
InsertsOverCapacity(p) ==
    /\ opts.enableLRU
    /\ procs[p].pc = "create"
    /\ procs[p].key \notin Resident
    /\ procs'[p].pc = "value"
    /\ Cardinality(Resident) + 1 > opts.capacity

\* C10: a Get that inserts a new key over the capacity leaves the new key
\* in the index and removes exactly one of the keys that were in it.
C10_OneResidentEvicted ==
    [][\A p \in Procs :
          InsertsOverCapacity(p) =>
              /\ elements'[procs[p].key] # 0
              /\ Cardinality({k \in Resident : elements'[k] = 0}) = 1]_vars

\* The items the key of goroutine p had had when p looked it up and found
\* it absent.
Former(p) == {j \in 1..procs[p].born : objs[j].key = procs[p].key}

\* The errors the loads of item i have returned and stored.
ErrorsOf(i) == {PairOf(n)[2] : n \in Storing(i)}

\* C11: a Get that finds its key absent after the key's item was removed
\* returns from a new item, whose Loader has been invoked; the value and the
\* error it returns are those of loads of the new item (or nil, when none
\* has stored a pair), never those of a load of a former item.
C11_GetAfterRemoveLoadsAnew ==
    \A p \in Procs :
        (procs[p].pc = "rderr" /\ Former(p) # {}) =>
            /\ procs[p].it > procs[p].born
            /\ LoadsOf(procs[p].it) # {}
            /\ Returns(p)[1] \in LoadsOf(procs[p].it) \cup {0}
            /\ Returns(p)[2] \in ErrorsOf(procs[p].it) \cup {0}
            /\ \A j \in Former(p) :
                   /\ Returns(p)[1] \notin LoadsOf(j)
                   /\ Returns(p)[2] \notin ErrorsOf(j) \ {0}

\* A Get after a Remove returns while the load that the removed item had
\* started is still in flight.
C11_Witness ==
    \E p \in Procs :
        /\ procs[p].pc = "rderr"
        /\ env.last.op = "Remove" /\ env.last.ok /\ env.last.key = procs[p].key
        /\ \E j \in Former(p) : \E n \in LoadsOf(j) : tasks[n].pc = "load"

\* Item i is in the map of the container or is reached in the recency list.
InIndex(i) ==
    \/ \E key \in Keys : items[key] = i \/ elements[key] = i
    \/ \E n \in 1..Len(ListSeq(evictList)) : ListSeq(evictList)[n] = i

\* C12: an item that is in neither the map nor the recency list (it was
\* removed by Remove, Purge or an eviction) is in neither of them after
\* any step.
C12_RemovedItemNeverReappears ==
    [][\A i \in 1..Len(objs) : ~InIndex(i) => ~InIndex(i)']_vars

\* Goroutine p waits in Value for the first load of its item, whose Loader
\* invocation has not returned.
BlockedCold(p) ==
    /\ procs[p].pc = "wait"
    /\ ~objs[procs[p].it].initialed
    /\ \E n \in LoadsOf(procs[p].it) : tasks[n].pc = "load"

\* A Loader invocation has not returned.
Hangs == \E n \in 1..Len(tasks) : tasks[n].pc = "load"

\* C13: in a run in which a Loader invocation never returns, a Get that
\* has started returns, unless it waits on an item that was never
\* initialized and whose Loader invocation has not returned; a Get on an
\* initialized item (also of the key whose reload hangs) is not held up.
C13_OnlyColdGetsBlock ==
    \A p \in Procs :
        <>[]Hangs => ((procs[p].pc # "idle") ~> (procs[p].pc = "idle" \/ BlockedCold(p)))

\* Item i is the one the map holds for its key.
InMap(i) == Indexed(objs[i].key) = i

\* Goroutine p starts a Get that passes the parameter check.
StartsGet(p) == procs[p].pc = "idle" /\ procs'[p].pc \notin {"idle", "errparams"}

\* Two parameter tuples that differ at most in their first parameter.
SameButContext(ps, qs) == Len(ps) = Len(qs) /\ Len(ps) > 0 /\ Tail(ps) = Tail(qs)

PointsAlike(ps, qs) ==
    /\ Len(ps) = Len(qs)
    /\ \A k \in 1..Len(ps) :
           /\ ps[k].kind = "ptr" /\ qs[k].kind = "ptr"
           /\ ps[k].at # qs[k].at
           /\ ps[k].text = qs[k].text

\* C15: a Get that passes pointers to values equal to those of an item in
\* the map, behind other pointers, gets that item and Len() does not
\* change; a Remove with such pointers returns true and removes that item,
\* and Len() drops by one.
C15_EqualPointeesSameKey ==
    [][\A i \in 1..Len(objs) :
          /\ \A p \in Procs :
                 (StartsGet(p) /\ InMap(i) /\ PointsAlike(objs[i].params, procs'[p].params))
                     => procs'[p].it = i /\ ContainerLen' = ContainerLen
          /\ \A ps \in ParamTuples :
                 (Remove(ps) /\ InMap(i) /\ PointsAlike(objs[i].params, ps))
                     => /\ env'.last.ok
                        /\ ~InMap(i)'
                        /\ ContainerLen' = ContainerLen - 1]_vars

\* An item made by a Get with one pointer and found by a Get with a second
\* pointer has been removed by a Remove with a third one: Len() is 0.
C15_Witness ==
    \E p \in Procs : \E i \in 1..Len(objs) :
        /\ procs[p].it = i /\ procs[p].born = 0
        /\ PointsAlike(objs[i].params, procs[p].params)
        /\ env.last.op = "Remove" /\ env.last.ok
        /\ PointsAlike(objs[i].params, env.last.params)
        /\ PointsAlike(procs[p].params, env.last.params)
        /\ ~InMap(i)
        /\ ContainerLen = 0

\* C16: a Get whose parameter count differs from the Loader's returns
\* (nil, ErrFnParams), and from its call to its return it changes neither
\* the map, the recency list, any item nor the load tasks: no item is
\* created, no Loader is invoked, Len() is unchanged.
C16_ErrFnParamsChangesNothing ==
    [][\A p \in Procs :
          /\ (procs[p].pc = "idle" /\ procs'[p].pc # "idle"
                  /\ Len(procs'[p].params) # fn.numIn)
                 => /\ procs'[p].pc = "errparams"
                    /\ procs'[p].v = 0 /\ procs'[p].err = ErrFnParams
                    /\ UNCHANGED <<items, elements, evictList, objs, tasks>>
                    /\ env'.loads = env.loads
                    /\ ContainerLen' = ContainerLen
          /\ (procs[p].pc = "errparams" /\ procs'[p] # procs[p])
                 => /\ procs'[p] = IdleProc
                    /\ UNCHANGED <<env, items, elements, evictList, objs, tasks>>]_vars

\* A Get with too many parameters is about to return ErrFnParams from a
\* container that holds an item.
C16_Witness ==
    \E p \in Procs :
        /\ procs[p].pc = "errparams" /\ Len(procs[p].params) > fn.numIn
        /\ procs[p].v = 0 /\ procs[p].err = ErrFnParams
        /\ ContainerLen > 0

\* A function of fixed arity that returns a value and an error.
ValidLoader ==
    /\ fn.kind = "func"
    /\ ~fn.variadic
    /\ fn.numOut = 2
    /\ fn.errOut

\* C17: New does not panic; it returns a container only for a function of
\* fixed arity that returns a (value, error) pair, and ErrInvalidFn and no
\* container for anything else; Must panics with that error and returns
\* the container when there is none.
C17_NewRejectsMalformedLoader ==
    /\ crashed => made = <<"panic", ErrInvalidFn>>
    /\ made \in {<<"New", 0>>, <<"Must", 0>>} => ValidLoader
    /\ made \in {<<"New", ErrInvalidFn>>, <<"panic", ErrInvalidFn>>} => ~ValidLoader

\* C18: in a container made with a capacity of 0 (or none), getLockedLRU
\* finds no length of the recency list over the capacity, up to one more
\* than DefaultCapacity: no insertion evicts.
C18_ZeroCapacityNeverEvicts ==
    (made[2] = 0 /\ made[1] # "none" /\ opts.given = 0)
        => \A len \in 1..(DefaultCapacity + 1) : ~(opts.enableLRU /\ OverCapacity(len))

\* The items of the resident keys in the order of the recency list, front
\* first.
ResidentOrder == SelectSeq(ListSeq(evictList), LAMBDA i : InMap(i))

\* C19: Remove returns true exactly when the key is in the map; it then
\* takes that key's item, and no other, out of the map and the recency
\* list: Len() drops by one, every other key keeps its item, no item is
\* changed and the recency order of the other resident keys is the same;
\* for an absent key it changes nothing.
C19_RemoveUnindexesOnlyItsKey ==
    [][\A ps \in ParamTuples :
          Remove(ps) =>
              LET key == generateCacheKey(ps)
                  e == Indexed(key)
              IN  /\ env'.last.ok = (e # 0)
                  /\ objs' = objs
                  /\ IF e # 0
                     THEN /\ Indexed(key)' = 0
                          /\ ContainerLen' = ContainerLen - 1
                          /\ \A k \in Keys \ {key} :
                                 elements'[k] = elements[k] /\ items'[k] = items[k]
                          /\ ResidentOrder' = SelectSeq(ResidentOrder, LAMBDA i : i # e)
                     ELSE UNCHANGED <<items, elements, evictList>>]_vars

\* No goroutine is inside Get.
Quiet == \A p \in Procs : procs[p].pc = "idle"

\* The map holds no key and the recency list no element.
Emptied ==
    /\ \A k \in Keys : Indexed(k) = 0
    /\ ContainerLen = 0
    /\ ListSeq(evictList) = <<>>
    /\ evictList.len = 0

\* C20: a Purge that runs while no goroutine is inside Get leaves the map
\* and the recency list empty and Len() 0; a Get that starts on the
\* emptied container misses, and a Get that missed on a key that has had
\* an item returns from a newer item, for which the Loader has been
\* invoked, a value of that item's loads.
C20_QuietPurgeEmptiesAll ==
    /\ [][(Purge /\ Quiet) => Emptied']_vars
    /\ [][\A p \in Procs : (StartsGet(p) /\ Emptied) => procs'[p].pc = "create"]_vars
    /\ [](\A p \in Procs :
            (procs[p].pc = "rderr" /\ Former(p) # {}) =>
                /\ procs[p].it > procs[p].born
                /\ LoadsOf(procs[p].it) # {}
                /\ Returns(p)[1] \in LoadsOf(procs[p].it) \cup {0})

\* After a Purge, with no other Get running, a Get of the key whose former
\* item held a loaded pair is about to return the pair a load of a new item
\* has stored.
C20_Witness ==
    \E p \in Procs :
        /\ procs[p].pc = "rderr"
        /\ \A q \in Procs \ {p} : procs[q].pc = "idle"
        /\ env.last.op = "Purge"
        /\ \E j \in Former(p) : Storing(j) # {}
        /\ procs[p].it > procs[p].born
        /\ \E n \in Storing(procs[p].it) : tasks[n].pc = "done" /\ Returns(p)[1] = n

\* C21: when the reload of an already loaded item returns an ordinary
\* error, the value kept in the item is the one cached before: no Get
\* returns the value that came with the error.
C21_ErrorReloadKeepsOldValue ==
    \A p \in Procs : \A n \in LoadsOf(procs[p].it) :
        (procs[p].pc = "rderr" /\ IsReload(n) /\ tasks[n].kind = "err")
            => procs[p].v # PairOf(n)[1]

\* C22: initialCh of an item is closed at most once, and only once the item
\* is initialed.
C22_InitialChClosedOnce ==
    \A i \in 1..Len(objs) :
        /\ objs[i].closed <= 1
        /\ objs[i].closed > 0 => objs[i].initialed

\* C23: the pair a Get returns is the empty pair of a new item or the pair
\* one load of the item has returned to store.
C23_NoMixedPair ==
    \A p \in Procs :
        procs[p].pc = "rderr" =>
            \/ Returns(p) = <<0, 0>>
            \/ \E m \in Storing(procs[p].it) : Returns(p) = PairOf(m)
\* C24: without removals, no key ever gets a second item: the Gets that found
\* the key absent at the same time allocate one item between them (getLocked
\* looks the key up again under the lock), and every Get past the lookup
\* holds the item the index has for its key.
C24_OneEntryPerKey ==
    /\ \A i, j \in 1..Len(objs) : objs[i].key = objs[j].key => i = j
    /\ \A p \in Procs :
           procs[p].pc \notin {"idle", "create"} =>
               /\ procs[p].it # 0
               /\ procs[p].it = Indexed(procs[p].key)

\* A Get that found the key absent stands before getLocked while another
\* Get, past the lookup, holds the item made for that key meanwhile.
C24_Witness ==
    \E p, q \in Procs :
        /\ p # q
        /\ procs[p].pc = "create"
        /\ procs[q].pc \notin {"idle", "create"}
        /\ procs[q].key = procs[p].key
        /\ procs[q].it = Indexed(procs[p].key)
        /\ procs[q].it # 0

\* The recency list without element e, front to back.
Others(l, e) == SelectSeq(ListSeq(l), LAMBDA i : i # e)

\* A Get that found its key in c.elements moves the element it holds to the
\* front, under the lock, while the key still maps to that element.
HitsResident(p) ==
    /\ GetTouch(p)
    /\ elements[procs[p].key] = procs[p].it

\* C25: a Get that hits a resident key leaves the resident keys and Len()
\* as they were and evicts nothing; in the recency list its element goes to
\* the front and all other elements keep their order.
C25_HitOnlyMovesToFront ==
    [][\A p \in Procs :
          HitsResident(p) =>
              /\ elements' = elements
              /\ ContainerLen' = ContainerLen
              /\ ListSeq(evictList') = <<procs[p].it>> \o Others(evictList, procs[p].it)]_vars

\* The keys the container has an item for.
Held == {k \in Keys : Indexed(k) # 0}

\* C26: without LRU, whatever the capacity, a Get removes nothing: a key
\* that a Get made an item for keeps that item until a Remove of that key
\* or a Purge, and Len() counts the keys obtained and not removed or purged
\* since.
C26_NoLRUGetNeverRemoves ==
    [][/\ Held' = IF Purge THEN {}
                  ELSE IF \E ps \in ParamTuples : Remove(ps)
                       THEN Held \ {env'.last.key}
                       ELSE IF \E p \in Procs : GetCreate(p)
                            THEN Held \cup {procs[p].key : p \in {q \in Procs : GetCreate(q)}}
                            ELSE Held
       /\ \A k \in Held \cap Held' : items'[k] = items[k]
       /\ ContainerLen' = Cardinality(Held')]_vars

\* More keys are in the map than the capacity given, after a Remove.
C26_Witness ==
    /\ ~opts.enableLRU
    /\ ContainerLen > opts.capacity
    /\ env.last.op = "Remove" /\ env.last.ok

\* C27: the Loader returning from every call, a Get that waits for the
\* first load of its item returns, also when the item was removed or purged
\* meanwhile; Remove and Purge leave the items and the loads in flight as
\* they are.
C27_BlockedGetsReturn ==
    /\ \A p \in Procs : (procs[p].pc = "wait") ~> (procs[p].pc = "idle")
    /\ [][(Purge \/ \E ps \in ParamTuples : Remove(ps)) =>
              (objs' = objs /\ tasks' = tasks /\ procs' = procs)]_vars

\* The elements linked in the recency list.
Linked == {ListSeq(evictList)[n] : n \in 1..Len(ListSeq(evictList))}

\* C28: with LRU, whenever no goroutine holds the lock, c.elements and
\* c.evictList hold the same items: every element of the map is linked in
\* the list, every linked element is the one its key maps to, and the
\* length of the list is the number of keys.
C28_MapAndListAgree ==
    opts.enableLRU =>
        /\ \A k \in Keys : elements[k] # 0 => elements[k] \in Linked
        /\ \A e \in Linked : elements[objs[e].key] = e
        /\ evictList.len = Cardinality(Held)
        /\ Len(ListSeq(evictList)) = evictList.len

\* C29: no goroutine that reads the map without the lock does so while a
\* Remove, a Purge or an eviction deletes from the same map object.
C29_NoLookupOverlapsDelete ==
    \A p \in Procs : ~procs[p].raced

\* The first load of item i, 0 when none has started.
FirstLoad(i) == IF LoadsOf(i) = {} THEN 0
                ELSE CHOOSE n \in LoadsOf(i) : \A m \in LoadsOf(i) : n <= m

\* C30: when the first load of an item returns ErrResourceExhausted, the
\* item is initialed and its channel closed once that load is done; no other
\* load of the item starts before the expiry that load set, and until then
\* every Get of the item returns (nil, nil).
C30_ExhaustedFirstLoadInitializes ==
    \A i \in 1..Len(objs) :
        LET first == FirstLoad(i)
        IN  (first # 0 /\ tasks[first].kind = "exh") =>
                /\ tasks[first].pc = "done" =>
                       (objs[i].initialed /\ objs[i].closed >= 1)
                /\ \A m \in LoadsOf(i) \ {first} : tasks[m].start >= tasks[first].exp
                /\ \A p \in Procs :
                       (procs[p].it = i /\ procs[p].pc = "rderr" /\ now < tasks[first].exp)
                           => Returns(p) = <<0, 0>>

====
